---------------------------- MODULE Spec2Model ----------------------------
(***************************************************************************)
(* The clip and image object layer of the OpenFX host support library      *)
(* (HostSupport/src/ofxhClip.cpp): ClipInstance with its get-hook readers, *)
(* component mapping and instanceChangedAction, and the reference-counted  *)
(* ImageBase.                                                              *)
(*                                                                         *)
(* Doubles are modelled by integers (1 stands for 1.0).  A call's result   *)
(* is recorded in ret: its outcome is "ok" for a normal return, the name   *)
(* of the status thrown for a Property::Exception, and a separate outcome  *)
(* for what undefined behaviour can produce.                               *)
(***************************************************************************)
EXTENDS Integers, Sequences, FiniteSets, TLC

(***************************************************************************)
(* Bounds of the model.                                                    *)
(***************************************************************************)
MaxSupported == 2
MaxAdds == 3
MaxIndex == 2
MaxCalls == 2
NThreads == 3

(***************************************************************************)
(* Names of the OpenFX API used by ofxhClip.cpp.                           *)
(***************************************************************************)
kOfxImageComponentNone == "OfxImageComponentNone"
kOfxImageComponentRGBA == "OfxImageComponentRGBA"
kOfxImageComponentRGB == "OfxImageComponentRGB"
kOfxImageComponentAlpha == "OfxImageComponentAlpha"
kOfxBitDepthNone == "OfxBitDepthNone"
kOfxImageOpaque == "OfxImageOpaque"
kOfxImageFieldNone == "OfxFieldNone"
kOfxTypeClip == "OfxTypeClip"
kOfxTypeImage == "OfxTypeImage"
kOfxStatFailed == "kOfxStatFailed"
kOfxStatErrValue == "kOfxStatErrValue"
kOfxActionInstanceChanged == "OfxActionInstanceChanged"

kOfxPropType == "OfxPropType"
kOfxPropName == "OfxPropName"
kOfxPropChangeReason == "OfxPropChangeReason"
kOfxPropTime == "OfxPropTime"
kOfxImageEffectPropPixelDepth == "OfxImageEffectPropPixelDepth"
kOfxImageEffectPropComponents == "OfxImageEffectPropComponents"
kOfxImageClipPropUnmappedPixelDepth == "OfxImageClipPropUnmappedPixelDepth"
kOfxImageClipPropUnmappedComponents == "OfxImageClipPropUnmappedComponents"
kOfxImageEffectPropPreMultiplication == "OfxImageEffectPropPreMultiplication"
kOfxImagePropPixelAspectRatio == "OfxImagePropPixelAspectRatio"
kOfxImageEffectPropFrameRate == "OfxImageEffectPropFrameRate"
kOfxImageEffectPropFrameRange == "OfxImageEffectPropFrameRange"
kOfxImageClipPropFieldOrder == "OfxImageClipPropFieldOrder"
kOfxImageClipPropConnected == "OfxImageClipPropConnected"
kOfxImageEffectPropUnmappedFrameRange == "OfxImageEffectPropUnmappedFrameRange"
kOfxImageEffectPropUnmappedFrameRate == "OfxImageEffectPropUnmappedFrameRate"
kOfxImageClipPropContinuousSamples == "OfxImageClipPropContinuousSamples"
kOfxImageEffectPropRenderScale == "OfxImageEffectPropRenderScale"
kOfxImagePropBounds == "OfxImagePropBounds"
kOfxImagePropRegionOfDefinition == "OfxImagePropRegionOfDefinition"
kOfxImagePropRowBytes == "OfxImagePropRowBytes"
kOfxImagePropField == "OfxImagePropField"
kOfxImagePropUniqueIdentifier == "OfxImagePropUniqueIdentifier"
kOfxPropLabel == "OfxPropLabel"
kOfxPropShortLabel == "OfxPropShortLabel"
kOfxPropLongLabel == "OfxPropLongLabel"
kOfxImageEffectPropSupportedComponents == "OfxImageEffectPropSupportedComponents"
kOfxImageEffectPropTemporalClipAccess == "OfxImageEffectPropTemporalClipAccess"
kOfxImageClipPropOptional == "OfxImageClipPropOptional"
kOfxImageClipPropIsMask == "OfxImageClipPropIsMask"
kOfxImageClipPropFieldExtraction == "OfxImageClipPropFieldExtraction"
kOfxImageEffectPropSupportsTiles == "OfxImageEffectPropSupportsTiles"
kOfxImageFieldDoubled == "OfxImageFieldDoubled"

(***************************************************************************)
(* Values the model draws inputs from.                                     *)
(***************************************************************************)
MyXYZ == "MyXYZ"
MyUVW == "MyUVW"
Components ==
  { kOfxImageComponentNone, kOfxImageComponentRGBA, kOfxImageComponentRGB,
    kOfxImageComponentAlpha, MyXYZ, MyUVW }
BitDepths == { kOfxBitDepthNone, "OfxBitDepthByte" }
Premults == { kOfxImageOpaque, "OfxImageAlphaPremultiplied" }
Fields == { kOfxImageFieldNone, "OfxFieldLower", "OfxFieldUpper" }
NULL == "NULL"
NoValue == "<no value>"

VARIABLES
  descriptor,        \* the ClipDescriptor's property bag
  _properties,       \* the ClipInstance's property bag, empty before it is built
  lastSet,           \* the argument of the latest setComponents call
  _effectInstance,   \* ClipInstance::_effectInstance: "effect" or NULL
  supported,         \* values of kOfxImageEffectPropSupportedComponents
  _components,       \* ClipInstance::_components
  host,              \* what the host's virtual accessors currently return
  image,             \* the ImageBase: its lifetime state and property bag
  _referenceCount,   \* ImageBase::_referenceCount
  destructorRuns,    \* how many times ~ImageBase has run
  adds,              \* addReference calls issued so far
  releases,          \* releaseReference calls issued so far
  atCtor,            \* the accessors' values when the image was constructed
  mainEntryCalls,    \* calls made to the effect's mainEntry
  ret,               \* the last call's result
  pc,                \* per thread: position inside releaseReference
  tmp,               \* per thread: the value loaded by the decrement
  deleters,          \* threads that executed delete this
  freedAccess,       \* threads that touched the counter after delete this
  zeroer             \* threads whose decrement stored a count <= 0

clipVars ==
  << descriptor, _properties, lastSet, _effectInstance, supported, _components, host >>
imageVars == << image, _referenceCount, destructorRuns, adds, releases, atCtor >>
threadVars == << pc, tmp, deleters, freedAccess, zeroer >>
vars == << clipVars, imageVars, threadVars, mainEntryCalls, ret >>

Threads == 1 .. NThreads


(***************************************************************************)
(* Results of a call.                                                      *)
(***************************************************************************)
Ok(v) == [outcome |-> "ok", value |-> v, wrote |-> << >>]
Throw(stat) == [outcome |-> stat, value |-> NoValue, wrote |-> << >>]
Wrote(vs) == [outcome |-> "ok", value |-> NoValue, wrote |-> vs]
OutOfBounds == [outcome |-> "outOfBounds", value |-> NoValue, wrote |-> << >>]
NoCall ==
  [op |-> "none", name |-> NoValue, n |-> 0,
   outcome |-> "none", value |-> NoValue, wrote |-> << >>]
Call(op, name, n, r) ==
  [op |-> op, name |-> name, n |-> n,
   outcome |-> r.outcome, value |-> r.value, wrote |-> r.wrote]

(***************************************************************************)
(* ClipInstance: the virtual accessors.  getComponents returns the member  *)
(* _components; the others are implemented by the host's subclass and      *)
(* return what the host currently holds.                                   *)
(***************************************************************************)
getComponents == _components
getPixelDepth == host.pixelDepth
getUnmappedComponents == host.unmappedComponents
getUnmappedBitDepth == host.unmappedBitDepth
getPremult == host.premult
getFieldOrder == host.fieldOrder
getAspectRatio == host.aspectRatio
getFrameRate == host.frameRate
getFrameRange == host.frameRange
getUnmappedFrameRate == host.unmappedFrameRate
getUnmappedFrameRange == host.unmappedFrameRange
getConnected == host.connected
getContinuousSamples == host.continuousSamples

DynamicKeys ==
  { kOfxImageEffectPropPixelDepth, kOfxImageEffectPropComponents,
    kOfxImageClipPropUnmappedPixelDepth, kOfxImageClipPropUnmappedComponents,
    kOfxImageEffectPropPreMultiplication, kOfxImagePropPixelAspectRatio,
    kOfxImageEffectPropFrameRate, kOfxImageEffectPropFrameRange,
    kOfxImageClipPropFieldOrder, kOfxImageClipPropConnected,
    kOfxImageEffectPropUnmappedFrameRange, kOfxImageEffectPropUnmappedFrameRate,
    kOfxImageClipPropContinuousSamples }

getDimension(name) ==
  IF name = kOfxImageEffectPropUnmappedFrameRange \/ name = kOfxImageEffectPropFrameRange
  THEN 2
  ELSE 1

\* range[n] of a two-element local array: an index outside 0..1 reads outside it
RangeElement(range, n) ==
  IF n \in {0, 1} THEN Ok(range[n + 1]) ELSE OutOfBounds

getDoubleProperty(name, n) ==
  CASE name = kOfxImagePropPixelAspectRatio ->
         IF n # 0 THEN Throw(kOfxStatErrValue) ELSE Ok(getAspectRatio)
    [] name = kOfxImageEffectPropFrameRate ->
         IF n # 0 THEN Throw(kOfxStatErrValue) ELSE Ok(getFrameRate)
    [] name = kOfxImageEffectPropFrameRange ->
         IF n > 1 THEN Throw(kOfxStatErrValue) ELSE RangeElement(getFrameRange, n)
    [] name = kOfxImageEffectPropUnmappedFrameRate ->
         IF n > 0 THEN Throw(kOfxStatErrValue) ELSE Ok(getUnmappedFrameRate)
    [] name = kOfxImageEffectPropUnmappedFrameRange ->
         IF n > 1 THEN Throw(kOfxStatErrValue)
         ELSE RangeElement(getUnmappedFrameRange, n)
    [] OTHER -> Throw(kOfxStatErrValue)

\* the values written through the pointer, from values[0] on, whatever n is
getDoublePropertyN(name, n) ==
  CASE name = kOfxImagePropPixelAspectRatio ->
         IF n > 1 THEN Throw(kOfxStatErrValue) ELSE Wrote(<< getAspectRatio >>)
    [] name = kOfxImageEffectPropFrameRate ->
         IF n > 1 THEN Throw(kOfxStatErrValue) ELSE Wrote(<< getFrameRate >>)
    [] name = kOfxImageEffectPropFrameRange ->
         IF n > 2 THEN Throw(kOfxStatErrValue) ELSE Wrote(getFrameRange)
    [] name = kOfxImageEffectPropUnmappedFrameRate ->
         IF n > 1 THEN Throw(kOfxStatErrValue) ELSE Wrote(<< getUnmappedFrameRate >>)
    [] name = kOfxImageEffectPropUnmappedFrameRange ->
         IF n > 2 THEN Throw(kOfxStatErrValue) ELSE Wrote(getUnmappedFrameRange)
    [] OTHER -> Throw(kOfxStatErrValue)

getIntProperty(name, n) ==
  IF n # 0 THEN Throw(kOfxStatErrValue)
  ELSE CASE name = kOfxImageClipPropConnected -> Ok(getConnected)
         [] name = kOfxImageClipPropContinuousSamples -> Ok(getContinuousSamples)
         [] OTHER -> Throw(kOfxStatErrValue)

getIntPropertyN(name, n) ==
  IF n # 0 THEN Throw(kOfxStatErrValue)
  ELSE LET r == getIntProperty(name, 0)
       IN  IF r.outcome = "ok" THEN Wrote(<< r.value >>) ELSE r

\* getStringProperty answering the components key with the unmapped components
getStringProperty_unmappedForComponents(name, n) ==
  IF n # 0 THEN Throw(kOfxStatErrValue)
  ELSE CASE name = kOfxImageEffectPropPixelDepth -> Ok(getPixelDepth)
         [] name = kOfxImageEffectPropComponents -> Ok(getUnmappedComponents)
         [] name = kOfxImageClipPropUnmappedComponents -> Ok(getUnmappedComponents)
         [] name = kOfxImageClipPropUnmappedPixelDepth -> Ok(getUnmappedBitDepth)
         [] name = kOfxImageEffectPropPreMultiplication -> Ok(getPremult)
         [] name = kOfxImageClipPropFieldOrder -> Ok(getFieldOrder)
         [] OTHER -> Throw(kOfxStatErrValue)

getStringProperty(name, n) ==
  IF n # 0 THEN Throw(kOfxStatErrValue)
  ELSE CASE name = kOfxImageEffectPropPixelDepth -> Ok(getPixelDepth)
         [] name = kOfxImageEffectPropComponents -> Ok(getComponents)
         [] name = kOfxImageClipPropUnmappedComponents -> Ok(getUnmappedComponents)
         [] name = kOfxImageClipPropUnmappedPixelDepth -> Ok(getUnmappedBitDepth)
         [] name = kOfxImageEffectPropPreMultiplication -> Ok(getPremult)
         [] name = kOfxImageClipPropFieldOrder -> Ok(getFieldOrder)
         [] OTHER -> Throw(kOfxStatErrValue)

getStringPropertyN(name, count) ==
  IF count = 0 THEN Wrote(<< >>)
  ELSE IF count # 1 THEN Throw(kOfxStatErrValue)
  ELSE CASE name = kOfxImageEffectPropPixelDepth -> Wrote(<< getPixelDepth >>)
         [] name = kOfxImageEffectPropComponents -> Wrote(<< getComponents >>)
         [] name = kOfxImageClipPropUnmappedComponents ->
              Wrote(<< getUnmappedComponents >>)
         [] name = kOfxImageClipPropUnmappedPixelDepth -> Wrote(<< getUnmappedBitDepth >>)
         [] name = kOfxImageEffectPropPreMultiplication -> Wrote(<< getPremult >>)
         [] name = kOfxImageClipPropFieldOrder -> Wrote(<< getFieldOrder >>)
         [] OTHER -> Throw(kOfxStatErrValue)

(***************************************************************************)
(* Component mapping.  this is the clip instance: its supported-components *)
(* property and its effect pointer.                                        *)
(***************************************************************************)
This == [supported |-> supported, effectInstance |-> _effectInstance]

\* Property::Set::findStringPropValueIndex: the position of the value, or -1
findStringPropValueIndex(values, comp) ==
  IF \E i \in 1 .. Len(values) : values[i] = comp
  THEN (CHOOSE i \in 1 .. Len(values) :
          values[i] = comp /\ \A j \in 1 .. (i - 1) : values[j] # comp) - 1
  ELSE -1

getSupportedComponents(this) == this.supported

isSupportedComponent(this, comp) ==
  findStringPropValueIndex(this.supported, comp) # -1

\* ImageEffect::Base::isChromaticComponent: the components the host knows as colour
isChromaticComponent(str) ==
  str \in {kOfxImageComponentRGBA, kOfxImageComponentRGB, kOfxImageComponentAlpha}

NullDereference == [outcome |-> "nullDereference", value |-> NoValue, wrote |-> << >>]

\* MapChromatic with RGB handed to an RGBA request whether supported or not
MapChromatic_unsupportedRGB(this, s) ==
  IF ~isChromaticComponent(s) THEN Ok(s)
  ELSE IF s = kOfxImageComponentRGBA THEN Ok(kOfxImageComponentRGB)
  ELSE IF s = kOfxImageComponentAlpha /\ isSupportedComponent(this, kOfxImageComponentRGBA)
  THEN Ok(kOfxImageComponentRGBA)
  ELSE IF s = kOfxImageComponentAlpha /\ isSupportedComponent(this, kOfxImageComponentRGB)
  THEN Ok(kOfxImageComponentRGB)
  ELSE IF Len(getSupportedComponents(this)) = 1
  THEN Ok(getSupportedComponents(this)[1])
  ELSE Ok(kOfxImageComponentNone)

\* MapChromatic without the rule for a list of exactly one entry
MapChromatic_noSingleEntry(this, s) ==
  IF ~isChromaticComponent(s) THEN Ok(s)
  ELSE IF s = kOfxImageComponentRGBA /\ isSupportedComponent(this, kOfxImageComponentRGB)
  THEN Ok(kOfxImageComponentRGB)
  ELSE IF s = kOfxImageComponentRGBA /\ isSupportedComponent(this, kOfxImageComponentAlpha)
  THEN Ok(kOfxImageComponentAlpha)
  ELSE IF s = kOfxImageComponentAlpha /\ isSupportedComponent(this, kOfxImageComponentRGBA)
  THEN Ok(kOfxImageComponentRGBA)
  ELSE IF s = kOfxImageComponentAlpha /\ isSupportedComponent(this, kOfxImageComponentRGB)
  THEN Ok(kOfxImageComponentRGB)
  ELSE Ok(kOfxImageComponentNone)

\* MapChromatic taking the first of RGB and Alpha in list order for RGBA
MapChromatic_listOrder(this, s) ==
  LET S == getSupportedComponents(this)
      hits == { i \in 1 .. Len(S) :
                  S[i] \in {kOfxImageComponentRGB, kOfxImageComponentAlpha} }
  IN  IF ~isChromaticComponent(s) THEN Ok(s)
      ELSE IF s = kOfxImageComponentRGBA /\ hits # {}
      THEN Ok(S[CHOOSE i \in hits : \A j \in hits : i <= j])
      ELSE IF s = kOfxImageComponentAlpha /\ isSupportedComponent(this, kOfxImageComponentRGBA)
      THEN Ok(kOfxImageComponentRGBA)
      ELSE IF s = kOfxImageComponentAlpha /\ isSupportedComponent(this, kOfxImageComponentRGB)
      THEN Ok(kOfxImageComponentRGB)
      ELSE IF Len(S) = 1 THEN Ok(S[1])
      ELSE Ok(kOfxImageComponentNone)

\* findSupportedComp from the test of isChromaticComponent's result on
MapChromatic(this, s) ==
  IF ~isChromaticComponent(s) THEN Ok(s)
  ELSE IF s = kOfxImageComponentRGBA /\ isSupportedComponent(this, kOfxImageComponentRGB)
  THEN Ok(kOfxImageComponentRGB)
  ELSE IF s = kOfxImageComponentRGBA /\ isSupportedComponent(this, kOfxImageComponentAlpha)
  THEN Ok(kOfxImageComponentAlpha)
  ELSE IF s = kOfxImageComponentAlpha /\ isSupportedComponent(this, kOfxImageComponentRGBA)
  THEN Ok(kOfxImageComponentRGBA)
  ELSE IF s = kOfxImageComponentAlpha /\ isSupportedComponent(this, kOfxImageComponentRGB)
  THEN Ok(kOfxImageComponentRGB)
  ELSE IF Len(getSupportedComponents(this)) = 1
  THEN Ok(getSupportedComponents(this)[1])
  ELSE Ok(kOfxImageComponentNone)

\* The results the call can have.  _effectInstance->isChromaticComponent(s) on a
\* null _effectInstance is undefined: the call traps, or the member function
\* runs without touching the object and the mapping goes on.
findSupportedComp(this, s) ==
  IF isSupportedComponent(this, s) THEN { Ok(s) }
  ELSE IF this.effectInstance = NULL THEN { NullDereference, MapChromatic(this, s) }
  ELSE { MapChromatic(this, s) }

FindSupportedCompCall(s) ==
  /\ \E r \in findSupportedComp(This, s) : ret' = Call("findSupportedComp", s, 0, r)
  /\ UNCHANGED << clipVars, imageVars, threadVars, mainEntryCalls >>

(***************************************************************************)
(* instanceChangedAction.  pluginStat is the status the effect's mainEntry *)
(* returns for this call.                                                  *)
(***************************************************************************)
Statuses == { "kOfxStatOK", kOfxStatFailed, "kOfxStatReplyDefault" }
Reasons == { "OfxChangeUserEdited", "OfxChangeTime" }
Times == { 0, 3 }
ClipName == "Source"

\* instanceChangedAction dropping the status mainEntry returned
instanceChangedAction_dropsStatus(why, time, renderScale, pluginStat) ==
  LET inArgs == [type |-> kOfxTypeClip, name |-> ClipName, reason |-> why,
                 time |-> time, renderScale |-> renderScale]
  IN  /\ Len(mainEntryCalls) < MaxCalls
      /\ IF _effectInstance # NULL
         THEN /\ mainEntryCalls' =
                   Append(mainEntryCalls,
                          [action |-> kOfxActionInstanceChanged,
                           handle |-> _effectInstance,
                           inArgs |-> inArgs,
                           returned |-> pluginStat])
              /\ ret' = Call("instanceChangedAction", why, 0, Ok("kOfxStatOK"))
         ELSE /\ mainEntryCalls' = mainEntryCalls
              /\ ret' = Call("instanceChangedAction", why, 0, Ok(kOfxStatFailed))
      /\ UNCHANGED << clipVars, imageVars, threadVars >>

instanceChangedAction(why, time, renderScale, pluginStat) ==
  LET inArgs == [type |-> kOfxTypeClip, name |-> ClipName, reason |-> why,
                 time |-> time, renderScale |-> renderScale]
  IN  /\ Len(mainEntryCalls) < MaxCalls
      /\ IF _effectInstance # NULL
         THEN /\ mainEntryCalls' =
                   Append(mainEntryCalls,
                          [action |-> kOfxActionInstanceChanged,
                           handle |-> _effectInstance,
                           inArgs |-> inArgs,
                           returned |-> pluginStat])
              /\ ret' = Call("instanceChangedAction", why, 0, Ok(pluginStat))
         ELSE /\ mainEntryCalls' = mainEntryCalls
              /\ ret' = Call("instanceChangedAction", why, 0, Ok(kOfxStatFailed))
      /\ UNCHANGED << clipVars, imageVars, threadVars >>

(***************************************************************************)
(* ClipInstance::setComponents, and the host changing what its accessors   *)
(* return.                                                                 *)
(***************************************************************************)
setComponents(s) ==
  /\ _components' = s
  /\ lastSet' = s
  /\ ret' = Call("setComponents", s, 0, Ok(NoValue))
  /\ UNCHANGED << descriptor, _properties, _effectInstance, supported, host >>
  /\ UNCHANGED << imageVars, threadVars, mainEntryCalls >>

DefaultHost ==
  [pixelDepth |-> kOfxBitDepthNone, unmappedBitDepth |-> kOfxBitDepthNone,
   unmappedComponents |-> kOfxImageComponentNone, premult |-> kOfxImageOpaque,
   fieldOrder |-> kOfxImageFieldNone, aspectRatio |-> 1, frameRate |-> 25,
   frameRange |-> << 0, 0 >>, unmappedFrameRate |-> 25,
   unmappedFrameRange |-> << 0, 0 >>, connected |-> 0, continuousSamples |-> 0]

AspectRatios == { 1, 2 }

HostChange ==
  /\ \E d \in BitDepths, p \in Premults, a \in AspectRatios :
       host' = [host EXCEPT !.pixelDepth = d, !.premult = p, !.aspectRatio = a]
  /\ host' # host
  /\ UNCHANGED << descriptor, _properties, lastSet, _effectInstance, supported, _components >>
  /\ UNCHANGED << imageVars, threadVars, mainEntryCalls, ret >>

(***************************************************************************)
(* ImageBase: the property bag and the constructors.  A bag maps each key  *)
(* of its schema to the tuple of its values.                               *)
(***************************************************************************)
imageBaseStuffs ==
  (kOfxPropType :> << kOfxTypeImage >>)
  @@ (kOfxImageEffectPropPixelDepth :> << kOfxBitDepthNone >>)
  @@ (kOfxImageEffectPropComponents :> << kOfxImageComponentNone >>)
  @@ (kOfxImageEffectPropPreMultiplication :> << kOfxImageOpaque >>)
  @@ (kOfxImageEffectPropRenderScale :> << 1, 1 >>)
  @@ (kOfxImagePropPixelAspectRatio :> << 1 >>)
  @@ (kOfxImagePropBounds :> << 0, 0, 0, 0 >>)
  @@ (kOfxImagePropRegionOfDefinition :> << 0, 0, 0, 0 >>)
  @@ (kOfxImagePropRowBytes :> << 0 >>)
  @@ (kOfxImagePropField :> << "" >>)
  @@ (kOfxImagePropUniqueIdentifier :> << "" >>)

\* Property::Set::set<Type>Property: stores into a property of the bag and
\* does nothing for a key the bag does not hold
setProperty(bag, name, value, index) ==
  IF name \in DOMAIN bag /\ (index + 1) \in 1 .. Len(bag[name])
  THEN [bag EXCEPT ![name][index + 1] = value]
  ELSE bag

\* Property::Set::getStringProperty / getDoubleProperty on the clip's bag: a
\* dynamic key is read through the get hook, at index 0
hookedStringProperty(name) == getStringProperty(name, 0).value
hookedDoubleProperty(name) == getDoubleProperty(name, 0).value

\* getClipBits taking the components from the unmapped-components key
getClipBits_unmappedComponents(bag) ==
  LET depth == hookedStringProperty(kOfxImageEffectPropPixelDepth)
      b1 == setProperty(bag, kOfxImageEffectPropPixelDepth, depth, 0)
      comps == hookedStringProperty(kOfxImageClipPropUnmappedComponents)
      b2 == setProperty(b1, kOfxImageEffectPropComponents, comps, 0)
      b3 == setProperty(b2, kOfxImageEffectPropPreMultiplication,
                        hookedStringProperty(kOfxImageEffectPropPreMultiplication), 0)
  IN  setProperty(b3, kOfxImagePropPixelAspectRatio,
                  hookedDoubleProperty(kOfxImagePropPixelAspectRatio), 0)

getClipBits(bag) ==
  LET depth == hookedStringProperty(kOfxImageEffectPropPixelDepth)
      b1 == setProperty(bag, kOfxImageEffectPropPixelDepth, depth, 0)
      comps == hookedStringProperty(kOfxImageEffectPropComponents)
      b2 == setProperty(b1, kOfxImageEffectPropComponents, comps, 0)
      b3 == setProperty(b2, kOfxImageEffectPropPreMultiplication,
                        hookedStringProperty(kOfxImageEffectPropPreMultiplication), 0)
  IN  setProperty(b3, kOfxImagePropPixelAspectRatio,
                  hookedDoubleProperty(kOfxImagePropPixelAspectRatio), 0)

ImageBaseFromClipGeometry(renderScaleX, renderScaleY, bounds, rod, rowBytes, field, uniqueIdentifier) ==
  LET b0 == getClipBits(imageBaseStuffs)
      b1 == setProperty(b0, kOfxImageEffectPropRenderScale, renderScaleX, 0)
      b2 == setProperty(b1, kOfxImageEffectPropRenderScale, renderScaleY, 1)
      b3 == setProperty(b2, kOfxImagePropBounds, bounds[1], 0)
      b4 == setProperty(b3, kOfxImagePropBounds, bounds[2], 1)
      b5 == setProperty(b4, kOfxImagePropBounds, bounds[3], 2)
      b6 == setProperty(b5, kOfxImagePropBounds, bounds[4], 3)
      b7 == setProperty(b6, kOfxImagePropRegionOfDefinition, rod[1], 0)
      b8 == setProperty(b7, kOfxImagePropRegionOfDefinition, rod[2], 1)
      b9 == setProperty(b8, kOfxImagePropRegionOfDefinition, rod[3], 2)
      b10 == setProperty(b9, kOfxImagePropRegionOfDefinition, rod[4], 3)
      b11 == setProperty(b10, kOfxImagePropRowBytes, rowBytes, 0)
      b12 == setProperty(b11, kOfxImagePropField, field, 0)
      b13 == setProperty(b12, kOfxImageClipPropFieldOrder, field, 0)
  IN  setProperty(b13, kOfxImagePropUniqueIdentifier, uniqueIdentifier, 0)

NoImage == [state |-> "unbuilt", ctor |-> "none", field |-> NoValue,
            props |-> imageBaseStuffs]
NoSnapshot == [pixelDepth |-> NoValue, components |-> NoValue,
               premult |-> NoValue, aspectRatio |-> 0]
AccessorSnapshot ==
  [pixelDepth |-> getPixelDepth, components |-> getComponents,
   premult |-> getPremult, aspectRatio |-> getAspectRatio]

\* ImageBase::ImageBase()
ImageBaseDefault ==
  /\ image.state = "unbuilt"
  /\ image' = [state |-> "live", ctor |-> "default", field |-> NoValue,
               props |-> imageBaseStuffs]
  /\ _referenceCount' = 1
  /\ UNCHANGED << destructorRuns, adds, releases, atCtor >>
  /\ UNCHANGED << clipVars, threadVars, mainEntryCalls, ret >>

\* ImageBase::ImageBase(ClipInstance&)
ImageBaseFromClip ==
  /\ image.state = "unbuilt"
  /\ image' = [state |-> "live", ctor |-> "clip", field |-> NoValue,
               props |-> getClipBits(imageBaseStuffs)]
  /\ _referenceCount' = 1
  /\ atCtor' = AccessorSnapshot
  /\ UNCHANGED << destructorRuns, adds, releases >>
  /\ UNCHANGED << clipVars, threadVars, mainEntryCalls, ret >>

\* the geometry a host passes: render scale x and y, bounds, region of
\* definition, row bytes, unique identifier
Geometries ==
  { << 1, 1, << 0, 0, 4, 4 >>, << 0, 0, 4, 4 >>, 16, "frame-a" >>,
    << 2, 1, << 1, 1, 3, 2 >>, << 0, 0, 8, 8 >>, -8, "frame-b" >> }

\* ImageBase::ImageBase(ClipInstance&, renderScaleX, ..., field, uniqueIdentifier)
ImageBaseGeometry(g, field) ==
  /\ image.state = "unbuilt"
  /\ image' = [state |-> "live", ctor |-> "geometry", field |-> field,
               props |-> ImageBaseFromClipGeometry(g[1], g[2], g[3], g[4], g[5],
                                                   field, g[6])]
  /\ _referenceCount' = 1
  /\ atCtor' = AccessorSnapshot
  /\ UNCHANGED << destructorRuns, adds, releases >>
  /\ UNCHANGED << clipVars, threadVars, mainEntryCalls, ret >>

(***************************************************************************)
(* ImageBase reference counting, called from one thread.  A caller holds   *)
(* no handle to a destroyed image, so neither is called on one.            *)
(***************************************************************************)
addReference ==
  /\ image.state = "live"
  /\ adds < MaxAdds
  /\ _referenceCount' = _referenceCount + 1
  /\ adds' = adds + 1
  /\ UNCHANGED << image, destructorRuns, releases, atCtor >>
  /\ UNCHANGED << clipVars, threadVars, mainEntryCalls, ret >>

\* releaseReference destroying only once the count is below zero
releaseReference_belowZero ==
  /\ image.state = "live"
  /\ releases' = releases + 1
  /\ _referenceCount' = _referenceCount - 1
  /\ IF _referenceCount' < 0
     THEN /\ destructorRuns' = destructorRuns + 1
          /\ image' = [image EXCEPT !.state = "destroyed"]
     ELSE UNCHANGED << destructorRuns, image >>
  /\ UNCHANGED << adds, atCtor >>
  /\ UNCHANGED << clipVars, threadVars, mainEntryCalls, ret >>

releaseReference ==
  /\ image.state = "live"
  /\ releases' = releases + 1
  /\ _referenceCount' = _referenceCount - 1
  /\ IF _referenceCount' <= 0
     THEN /\ destructorRuns' = destructorRuns + 1
          /\ image' = [image EXCEPT !.state = "destroyed"]
     ELSE UNCHANGED << destructorRuns, image >>
  /\ UNCHANGED << adds, atCtor >>
  /\ UNCHANGED << clipVars, threadVars, mainEntryCalls, ret >>

(***************************************************************************)
(* The clip's property bag: each key of the schema maps to its values and  *)
(* its plugin-read-only flag.  A ClipDescriptor is built from              *)
(* clipDescriptorStuffs and named; the plugin describes it; a ClipInstance *)
(* copies the descriptor's bag, clears every plugin-read-only flag, adds   *)
(* clipInstanceStuffs and hooks itself to the added keys.                  *)
(***************************************************************************)
Prop(values, readonly) == [value |-> values, pluginReadOnly |-> readonly, getHook |-> FALSE]

clipDescriptorStuffs ==
  (kOfxPropType :> Prop(<< kOfxTypeClip >>, TRUE))
  @@ (kOfxPropName :> Prop(<< "SET ME ON CONSTRUCTION" >>, TRUE))
  @@ (kOfxPropLabel :> Prop(<< "" >>, FALSE))
  @@ (kOfxPropShortLabel :> Prop(<< "" >>, FALSE))
  @@ (kOfxPropLongLabel :> Prop(<< "" >>, FALSE))
  @@ (kOfxImageEffectPropSupportedComponents :> Prop(<< >>, FALSE))
  @@ (kOfxImageEffectPropTemporalClipAccess :> Prop(<< 0 >>, FALSE))
  @@ (kOfxImageClipPropOptional :> Prop(<< 0 >>, FALSE))
  @@ (kOfxImageClipPropIsMask :> Prop(<< 0 >>, FALSE))
  @@ (kOfxImageClipPropFieldExtraction :> Prop(<< kOfxImageFieldDoubled >>, FALSE))
  @@ (kOfxImageEffectPropSupportsTiles :> Prop(<< 1 >>, FALSE))

clipInstanceStuffs ==
  (kOfxImageEffectPropPixelDepth :> Prop(<< kOfxBitDepthNone >>, TRUE))
  @@ (kOfxImageEffectPropComponents :> Prop(<< kOfxImageComponentNone >>, TRUE))
  @@ (kOfxImageClipPropUnmappedPixelDepth :> Prop(<< kOfxBitDepthNone >>, TRUE))
  @@ (kOfxImageClipPropUnmappedComponents :> Prop(<< kOfxImageComponentNone >>, TRUE))
  @@ (kOfxImageEffectPropPreMultiplication :> Prop(<< kOfxImageOpaque >>, TRUE))
  @@ (kOfxImagePropPixelAspectRatio :> Prop(<< 1 >>, TRUE))
  @@ (kOfxImageEffectPropFrameRate :> Prop(<< 25 >>, TRUE))
  @@ (kOfxImageEffectPropFrameRange :> Prop(<< 0, 0 >>, TRUE))
  @@ (kOfxImageClipPropFieldOrder :> Prop(<< kOfxImageFieldNone >>, TRUE))
  @@ (kOfxImageClipPropConnected :> Prop(<< 0 >>, TRUE))
  @@ (kOfxImageEffectPropUnmappedFrameRange :> Prop(<< 0, 0 >>, TRUE))
  @@ (kOfxImageEffectPropUnmappedFrameRate :> Prop(<< 25 >>, TRUE))
  @@ (kOfxImageClipPropContinuousSamples :> Prop(<< 0 >>, TRUE))

NoBag == << >>

\* ClipBase::ClipBase() and ClipDescriptor::ClipDescriptor(name)
ClipDescriptor(name) ==
  [clipDescriptorStuffs EXCEPT ![kOfxPropName].value = << name >>]

\* ClipBase::ClipBase(const ClipBase &v) leaving the flags as the copy has them
ClipBaseCopy_keepsReadOnly(v) == v

\* ClipBase::ClipBase(const ClipBase &v): the copy of v's bag, with
\* setPluginReadOnly(false) on every property of it
ClipBaseCopy(v) ==
  [name \in DOMAIN v |-> [v[name] EXCEPT !.pluginReadOnly = FALSE]]

\* Property::Set::addProperties: the bag with the schema's properties created in it
addProperties(bag, stuffs) == stuffs @@ bag

\* Property::Set::setGetHook: reads of the property go to the hook
setGetHook(bag, name) ==
  IF name \in DOMAIN bag THEN [bag EXCEPT ![name].getHook = TRUE] ELSE bag

\* the loop of the ClipInstance constructor over clipInstanceStuffs, whose
\* entries are all of type double, string or int
HookAll(bag) ==
  [name \in DOMAIN bag |->
     IF name \in DOMAIN clipInstanceStuffs THEN setGetHook(bag, name)[name]
     ELSE bag[name]]

\* the bag of ClipInstance::ClipInstance(effectInstance, desc)
ClipInstanceProperties(desc) ==
  HookAll(addProperties(ClipBaseCopy(desc), clipInstanceStuffs))

\* the values of the supported-components property of a bag
SupportedOf(bag) == bag[kOfxImageEffectPropSupportedComponents].value

\* the plugin, describing: it appends a supported component
DescribeSupportedComponent(c) ==
  /\ _properties = NoBag
  /\ ~descriptor[kOfxImageEffectPropSupportedComponents].pluginReadOnly
  /\ Len(SupportedOf(descriptor)) < MaxSupported
  /\ descriptor' =
       [descriptor EXCEPT ![kOfxImageEffectPropSupportedComponents].value =
                            Append(@, c)]
  /\ UNCHANGED << _properties, lastSet, _effectInstance, supported, _components, host >>
  /\ UNCHANGED << imageVars, threadVars, mainEntryCalls, ret >>

\* what the plugin may set the single-valued descriptor properties to
DescribedValues ==
  (kOfxPropLabel :> "Src")
  @@ (kOfxImageClipPropOptional :> 1)
  @@ (kOfxImageClipPropIsMask :> 1)
  @@ (kOfxPropName :> "Renamed")

\* the plugin, describing: it sets a property, which the bag refuses when the
\* property is plugin-read-only
DescribeProperty(name) ==
  /\ _properties = NoBag
  /\ ~descriptor[name].pluginReadOnly
  /\ descriptor' = [descriptor EXCEPT ![name].value = << DescribedValues[name] >>]
  /\ descriptor' # descriptor
  /\ UNCHANGED << _properties, lastSet, _effectInstance, supported, _components, host >>
  /\ UNCHANGED << imageVars, threadVars, mainEntryCalls, ret >>

\* ClipInstance::ClipInstance(effectInstance, desc)
ClipInstance(effectInstance) ==
  /\ _properties = NoBag
  /\ _properties' = ClipInstanceProperties(descriptor)
  /\ _effectInstance' = effectInstance
  /\ _components' = kOfxImageComponentNone
  /\ supported' = SupportedOf(_properties')
  /\ UNCHANGED << descriptor, lastSet, host >>
  /\ UNCHANGED << imageVars, threadVars, mainEntryCalls, ret >>

\* a clip instance built from a descriptor that declares the list S
DescribedWith(S) ==
  [ClipDescriptor(ClipName) EXCEPT ![kOfxImageEffectPropSupportedComponents].value = S]

Constructed ==
  /\ descriptor = DescribedWith(supported)
  /\ _properties = ClipInstanceProperties(descriptor)

(***************************************************************************)
(* The clip instance and an image it delivers, driven from one thread.     *)
(***************************************************************************)
IdleThreads ==
  /\ pc = [t \in Threads |-> "idle"]
  /\ tmp = [t \in Threads |-> 0]
  /\ deleters = {}
  /\ freedAccess = {}
  /\ zeroer = {}

Init ==
  /\ _effectInstance = "effect"
  /\ supported = << kOfxImageComponentRGBA >>
  /\ _components = kOfxImageComponentNone
  /\ host = DefaultHost
  /\ image = NoImage
  /\ _referenceCount = 0
  /\ destructorRuns = 0
  /\ adds = 0
  /\ releases = 0
  /\ atCtor = NoSnapshot
  /\ mainEntryCalls = << >>
  /\ ret = NoCall
  /\ Constructed
  /\ lastSet = NoValue
  /\ IdleThreads

Next ==
  \/ \E s \in Components : setComponents(s)
  \/ HostChange
  \/ ImageBaseDefault
  \/ ImageBaseFromClip
  \/ \E g \in Geometries, f \in Fields : ImageBaseGeometry(g, f)
  \/ addReference
  \/ releaseReference

Spec == Init /\ [][Next]_vars

(***************************************************************************)
(* Component mapping over every supported list and request.                *)
(***************************************************************************)
SupportedLists == UNION { [1 .. k -> Components] : k \in 0 .. MaxSupported }

InitComp ==
  /\ _effectInstance \in { "effect", NULL }
  /\ supported \in SupportedLists
  /\ _components = kOfxImageComponentNone
  /\ host = DefaultHost
  /\ image = NoImage
  /\ _referenceCount = 0
  /\ destructorRuns = 0
  /\ adds = 0
  /\ releases = 0
  /\ atCtor = NoSnapshot
  /\ mainEntryCalls = << >>
  /\ ret = NoCall
  /\ Constructed
  /\ lastSet = NoValue
  /\ IdleThreads

NextComp == \E s \in Components : FindSupportedCompCall(s)

SpecComp == InitComp /\ [][NextComp]_vars

(***************************************************************************)
(* The get hook, read by the property bag or called directly.              *)
(***************************************************************************)
Indices == (0 - MaxIndex) .. MaxIndex
HookKeys == DynamicKeys \cup { kOfxPropName }
StackGarbage == { -7 }

\* what a call that read outside the local array gives: a trap, or whatever
\* the stack held there
Resolve(r) ==
  IF r.outcome = "outOfBounds" THEN { r } \cup { Ok(v) : v \in StackGarbage } ELSE { r }

HookRead(op, name, n, r) ==
  /\ \E q \in Resolve(r) : ret' = Call(op, name, n, q)
  /\ UNCHANGED << clipVars, imageVars, threadVars, mainEntryCalls >>

HookGetDoubleProperty(name, n) ==
  HookRead("getDoubleProperty", name, n, getDoubleProperty(name, n))
HookGetIntProperty(name, n) ==
  HookRead("getIntProperty", name, n, getIntProperty(name, n))
HookGetStringProperty(name, n) ==
  HookRead("getStringProperty", name, n, getStringProperty(name, n))
HookGetDoublePropertyN(name, n) ==
  HookRead("getDoublePropertyN", name, n, getDoublePropertyN(name, n))
HookGetIntPropertyN(name, n) ==
  HookRead("getIntPropertyN", name, n, getIntPropertyN(name, n))
HookGetStringPropertyN(name, n) ==
  HookRead("getStringPropertyN", name, n, getStringPropertyN(name, n))

HookHosts ==
  { [DefaultHost EXCEPT !.aspectRatio = a, !.frameRange = fr, !.connected = c,
                        !.unmappedFrameRate = 24, !.unmappedFrameRange = << 1, 9 >>,
                        !.continuousSamples = 1 - c, !.fieldOrder = "OfxFieldLower",
                        !.pixelDepth = "OfxBitDepthByte",
                        !.unmappedComponents = kOfxImageComponentRGB]
      : a \in AspectRatios, fr \in { << 0, 10 >>, << 5, 20 >> }, c \in { 0, 1 } }

InitHook ==
  /\ _effectInstance = "effect"
  /\ supported = << kOfxImageComponentRGBA >>
  /\ _components \in { kOfxImageComponentNone, kOfxImageComponentRGBA }
  /\ host \in HookHosts
  /\ image = NoImage
  /\ _referenceCount = 0
  /\ destructorRuns = 0
  /\ adds = 0
  /\ releases = 0
  /\ atCtor = NoSnapshot
  /\ mainEntryCalls = << >>
  /\ ret = NoCall
  /\ Constructed
  /\ lastSet = IF _components = kOfxImageComponentNone THEN NoValue ELSE _components
  /\ IdleThreads

NextHook ==
  \/ \E name \in HookKeys, n \in Indices : HookGetDoubleProperty(name, n)
  \/ \E name \in HookKeys, n \in Indices : HookGetIntProperty(name, n)
  \/ \E name \in HookKeys, n \in Indices : HookGetStringProperty(name, n)
  \/ \E name \in HookKeys, n \in Indices : HookGetDoublePropertyN(name, n)
  \/ \E name \in HookKeys, n \in Indices : HookGetIntPropertyN(name, n)
  \/ \E name \in HookKeys, n \in Indices : HookGetStringPropertyN(name, n)

SpecHook == InitHook /\ [][NextHook]_vars

(***************************************************************************)
(* instanceChangedAction on a clip with and without an effect.             *)
(***************************************************************************)
RenderScales == { << 1, 1 >> }

InitAction ==
  /\ _effectInstance \in { "effect", NULL }
  /\ supported = << kOfxImageComponentRGBA >>
  /\ _components = kOfxImageComponentNone
  /\ host = DefaultHost
  /\ image = NoImage
  /\ _referenceCount = 0
  /\ destructorRuns = 0
  /\ adds = 0
  /\ releases = 0
  /\ atCtor = NoSnapshot
  /\ mainEntryCalls = << >>
  /\ ret = NoCall
  /\ Constructed
  /\ lastSet = NoValue
  /\ IdleThreads

NextAction ==
  \E why \in Reasons, time \in Times, rs \in RenderScales, st \in Statuses :
    instanceChangedAction(why, time, rs, st)

SpecAction == InitAction /\ [][NextAction]_vars

(***************************************************************************)
(* releaseReference called from several threads, each holding one          *)
(* reference.  The decrement is a load and a store of the counter; an      *)
(* atomic decrement is the load followed at once by the store.  The test   *)
(* of the counter is a further read.  Memory that delete this has freed    *)
(* reads as what was last stored there or as what has replaced it.         *)
(***************************************************************************)
FreedGarbage == { 0, 1 }

ReadCount == IF destructorRuns > 0 THEN { _referenceCount } \cup FreedGarbage
             ELSE { _referenceCount }

Touch(t) == freedAccess' = IF destructorRuns > 0 THEN freedAccess \cup { t }
                           ELSE freedAccess

ReleaseCall(t) ==
  /\ pc[t] = "call"
  /\ pc' = [pc EXCEPT ![t] = "load"]
  /\ releases' = releases + 1
  /\ UNCHANGED << image, _referenceCount, destructorRuns, adds, atCtor >>
  /\ UNCHANGED << tmp, deleters, freedAccess, zeroer >>
  /\ UNCHANGED << clipVars, mainEntryCalls, ret >>

ReleaseLoad(t) ==
  /\ pc[t] = "load"
  /\ \E v \in ReadCount : tmp' = [tmp EXCEPT ![t] = v]
  /\ Touch(t)
  /\ pc' = [pc EXCEPT ![t] = "store"]
  /\ UNCHANGED << imageVars, deleters, zeroer >>
  /\ UNCHANGED << clipVars, mainEntryCalls, ret >>

ReleaseStore(t) ==
  /\ pc[t] = "store"
  /\ _referenceCount' = tmp[t] - 1
  /\ zeroer' = IF _referenceCount = 1 /\ tmp[t] - 1 = 0 THEN zeroer \cup { t }
               ELSE zeroer
  /\ Touch(t)
  /\ pc' = [pc EXCEPT ![t] = "test"]
  /\ UNCHANGED << image, destructorRuns, adds, releases, atCtor >>
  /\ UNCHANGED << tmp, deleters >>
  /\ UNCHANGED << clipVars, mainEntryCalls, ret >>

ReleaseTest(t) ==
  /\ pc[t] = "test"
  /\ \E v \in ReadCount :
       IF v <= 0
       THEN /\ destructorRuns' = destructorRuns + 1
            /\ deleters' = deleters \cup { t }
            /\ image' = [image EXCEPT !.state = "destroyed"]
       ELSE UNCHANGED << destructorRuns, deleters, image >>
  /\ Touch(t)
  /\ pc' = [pc EXCEPT ![t] = "done"]
  /\ UNCHANGED << _referenceCount, adds, releases, atCtor >>
  /\ UNCHANGED << tmp, zeroer >>
  /\ UNCHANGED << clipVars, mainEntryCalls, ret >>

InitRace ==
  /\ _effectInstance = "effect"
  /\ supported = << kOfxImageComponentRGBA >>
  /\ _components = kOfxImageComponentNone
  /\ host = DefaultHost
  /\ image = [state |-> "live", ctor |-> "default", field |-> NoValue,
              props |-> imageBaseStuffs]
  /\ _referenceCount = NThreads
  /\ destructorRuns = 0
  /\ adds = NThreads - 1
  /\ releases = 0
  /\ atCtor = NoSnapshot
  /\ mainEntryCalls = << >>
  /\ ret = NoCall
  /\ Constructed
  /\ lastSet = NoValue
  /\ pc = [t \in Threads |-> "call"]
  /\ tmp = [t \in Threads |-> 0]
  /\ deleters = {}
  /\ freedAccess = {}
  /\ zeroer = {}

NextRace ==
  \/ \E t \in Threads : ReleaseCall(t)
  \/ \E t \in Threads : ReleaseLoad(t)
  \/ \E t \in Threads : ReleaseStore(t)
  \/ \E t \in Threads : ReleaseTest(t)

SpecRace == InitRace /\ [][NextRace]_vars

(***************************************************************************)
(* Properties.                                                             *)
(***************************************************************************)
Range(seq) == { seq[i] : i \in 1 .. Len(seq) }

PermutationsOf(seq) ==
  { [i \in 1 .. Len(seq) |-> seq[f[i]]] :
      f \in { g \in [1 .. Len(seq) -> 1 .. Len(seq)] :
                \A i, j \in 1 .. Len(seq) : g[i] = g[j] => i = j } }

\* C1: for an image constructed with count 1 and used from one thread, the
\* destructor has run exactly once when more releases than addReferences
\* have been issued, and has not run while the releases issued so far do not
\* exceed the addReferences issued so far.
C1_DestructorIffReleasesExceedAdds ==
  /\ releases > adds => destructorRuns = 1 /\ image.state = "destroyed"
  /\ releases <= adds => destructorRuns = 0

C1_Witness ==
  /\ image.state = "destroyed"
  /\ adds = 2
  /\ releases = 3
  /\ destructorRuns = 1

\* C2: when several threads each release their one reference concurrently,
\* the destructor runs exactly once, only in a thread whose decrement took
\* the count from 1 to 0, and no thread touches the counter of the destroyed
\* object.
C2_ConcurrentReleaseDestroysOnce ==
  /\ destructorRuns <= 1
  /\ deleters \subseteq zeroer
  /\ freedAccess = {}
  /\ (\A t \in Threads : pc[t] = "done") => destructorRuns = 1

\* C3: a value findSupportedComp(r) returns is an element of the supported
\* list, r itself or "none"; and when r is in the supported list the call
\* returns r.
C3_ResultInSupportedOrRequest ==
  ret.op = "findSupportedComp" =>
    /\ ret.outcome = "ok" =>
         ret.value \in Range(supported) \cup { ret.name, kOfxImageComponentNone }
    /\ ret.name \in Range(supported) => ret.outcome = "ok" /\ ret.value = ret.name

C3_Witness ==
  /\ ret.op = "findSupportedComp"
  /\ supported = << kOfxImageComponentAlpha, MyXYZ >>
  /\ ret.name = kOfxImageComponentRGBA
  /\ ret.outcome = "ok"
  /\ ret.value = kOfxImageComponentAlpha

CustomOnlyRGBARequest ==
  /\ ret.op = "findSupportedComp"
  /\ ret.name = kOfxImageComponentRGBA
  /\ ret.outcome = "ok"
  /\ supported \in { << MyXYZ >>, << MyXYZ, MyUVW >> }

\* C4 as claimed: an RGBA request on a supported list of custom components
\* only returns "none", for the one-entry list ["MyXYZ"] as for the
\* two-entry list ["MyXYZ", "MyUVW"].
C4_CustomOnlyGivesNone ==
  CustomOnlyRGBARequest => ret.value = kOfxImageComponentNone

\* C4 as amended: an RGBA request on a supported list of custom components
\* only returns the list's entry "MyXYZ" for the one-entry list ["MyXYZ"]
\* and "none" for the two-entry list ["MyXYZ", "MyUVW"].
C4_CustomOnlyGivesSoleEntryOrNone ==
  CustomOnlyRGBARequest =>
    ret.value = IF Len(supported) = 1 THEN MyXYZ ELSE kOfxImageComponentNone

C4_Witness ==
  /\ CustomOnlyRGBARequest
  /\ supported = << MyXYZ >>
  /\ ret.value = MyXYZ

\* C5: for a request not directly supported, RGBA maps to RGB when RGB is
\* supported and otherwise to Alpha when Alpha is supported; Alpha maps to
\* RGBA when RGBA is supported and otherwise to RGB when RGB is supported;
\* and every permutation of the supported list gives the same result.
C5_ChromaticSubstitution ==
  (/\ ret.op = "findSupportedComp"
   /\ ret.outcome = "ok"
   /\ ret.name \notin Range(supported)
   /\ ret.name \in { kOfxImageComponentRGBA, kOfxImageComponentAlpha }) =>
    LET S == Range(supported)
        first == IF ret.name = kOfxImageComponentRGBA THEN kOfxImageComponentRGB
                 ELSE kOfxImageComponentRGBA
        second == IF ret.name = kOfxImageComponentRGBA THEN kOfxImageComponentAlpha
                  ELSE kOfxImageComponentRGB
    IN  /\ first \in S => ret.value = first
        /\ first \notin S /\ second \in S => ret.value = second
        /\ \A p \in PermutationsOf(supported) :
             \A r \in findSupportedComp([This EXCEPT !.supported = p], ret.name) :
               r.outcome = "ok" => r.value = ret.value

C5_Witness ==
  /\ ret.op = "findSupportedComp"
  /\ supported = << kOfxImageComponentAlpha, kOfxImageComponentRGB >>
  /\ ret.name = kOfxImageComponentRGBA
  /\ ret.outcome = "ok"
  /\ ret.value = kOfxImageComponentRGB

ScalarReaders == { "getDoubleProperty", "getIntProperty", "getStringProperty" }

ValidIndex(name, n) == n = 0 \/ (n = 1 /\ getDimension(name) = 2)

\* C6: a scalar get-hook read of a dynamic key succeeds only at index 0, or
\* at index 0 or 1 for frameRange and unmappedFrameRange; at every other
\* index, negative ones included, it fails with a value-error, returning no
\* value and reading nothing outside the two-element range buffer.
C6_ScalarReadChecksIndex ==
  (ret.op \in ScalarReaders /\ ret.name \in DynamicKeys) =>
    /\ ret.outcome = "ok" => ValidIndex(ret.name, ret.n)
    /\ ~ValidIndex(ret.name, ret.n) => ret.outcome = kOfxStatErrValue

\* the dynamic keys by the element type clipInstanceStuffs declares
DoubleKeys ==
  { kOfxImagePropPixelAspectRatio, kOfxImageEffectPropFrameRate,
    kOfxImageEffectPropFrameRange, kOfxImageEffectPropUnmappedFrameRange,
    kOfxImageEffectPropUnmappedFrameRate }
IntKeys == { kOfxImageClipPropConnected, kOfxImageClipPropContinuousSamples }
StringKeys == (DynamicKeys \ DoubleKeys) \ IntKeys

ScalarAtZero(op, name) ==
  CASE op = "getDoublePropertyN" -> getDoubleProperty(name, 0)
    [] op = "getIntPropertyN" -> getIntProperty(name, 0)
    [] op = "getStringPropertyN" -> getStringProperty(name, 0)

MultiReadOfSingleValuedKey ==
  /\ getDimension(ret.name) = 1
  /\ \/ ret.op = "getDoublePropertyN" /\ ret.name \in DoubleKeys
     \/ ret.op = "getIntPropertyN" /\ ret.name \in IntKeys
     \/ ret.op = "getStringPropertyN" /\ ret.name \in StringKeys

\* C7: a multi-read of a single-valued dynamic key with count 0 writes
\* nothing and raises no error, with count 1 gives the value the scalar
\* reader gives at index 0, and with any other count fails with a
\* value-error.
C7_MultiReadCounts ==
  MultiReadOfSingleValuedKey =>
    /\ ret.n = 0 => ret.outcome = "ok" /\ ret.wrote = << >>
    /\ ret.n = 1 =>
         /\ ret.outcome = "ok"
         /\ ret.wrote = << ScalarAtZero(ret.op, ret.name).value >>
    /\ ret.n \notin { 0, 1 } => ret.outcome = kOfxStatErrValue

\* C8: an image constructed from a clip plus geometry with field f holds f
\* under the image-field key and under the clip-field-order key of its bag.
C8_FieldUnderBothKeys ==
  image.ctor = "geometry" =>
    /\ kOfxImagePropField \in DOMAIN image.props
    /\ image.props[kOfxImagePropField] = << image.field >>
    /\ kOfxImageClipPropFieldOrder \in DOMAIN image.props
    /\ image.props[kOfxImageClipPropFieldOrder] = << image.field >>

\* C9: an image built from a clip instance stores the pixel depth,
\* components, premultiplication and pixel aspect ratio the instance's
\* accessors returned when it was constructed, and keeps them whatever
\* setComponents does to the instance afterwards.
C9_SnapshotOfAccessors ==
  image.ctor \in { "clip", "geometry" } =>
    /\ image.props[kOfxImageEffectPropPixelDepth] = << atCtor.pixelDepth >>
    /\ image.props[kOfxImageEffectPropComponents] = << atCtor.components >>
    /\ image.props[kOfxImageEffectPropPreMultiplication] = << atCtor.premult >>
    /\ image.props[kOfxImagePropPixelAspectRatio] = << atCtor.aspectRatio >>

C9_Witness ==
  /\ image.ctor = "clip"
  /\ image.state = "live"
  /\ atCtor.components = kOfxImageComponentRGBA
  /\ atCtor.aspectRatio = 2
  /\ _components = kOfxImageComponentAlpha
  /\ image.props[kOfxImageEffectPropComponents] = << kOfxImageComponentRGBA >>

\* C10: with an effect bound, instanceChangedAction calls the effect's
\* mainEntry exactly once, with the action "instance-changed", and returns
\* the status that call returned; with no effect bound it calls nothing and
\* returns failed.
C10_InstanceChangedStatus ==
  [][IF _effectInstance # NULL
     THEN /\ Len(mainEntryCalls') = Len(mainEntryCalls) + 1
          /\ SubSeq(mainEntryCalls', 1, Len(mainEntryCalls)) = mainEntryCalls
          /\ mainEntryCalls'[Len(mainEntryCalls')].action = kOfxActionInstanceChanged
          /\ ret'.op = "instanceChangedAction"
          /\ ret'.outcome = "ok"
          /\ ret'.value = mainEntryCalls'[Len(mainEntryCalls')].returned
     ELSE /\ mainEntryCalls' = mainEntryCalls
          /\ ret'.op = "instanceChangedAction"
          /\ ret'.outcome = "ok"
          /\ ret'.value = kOfxStatFailed]_vars

C10_Witness ==
  /\ _effectInstance # NULL
  /\ ret.op = "instanceChangedAction"
  /\ Len(mainEntryCalls) = 2
  /\ mainEntryCalls[1].returned = kOfxStatFailed
  /\ mainEntryCalls[2].returned = "kOfxStatReplyDefault"
  /\ ret.value = "kOfxStatReplyDefault"

(***************************************************************************)
(* A descriptor, described by the plugin and then cloned into an instance. *)
(***************************************************************************)
InitClone ==
  /\ descriptor = ClipDescriptor(ClipName)
  /\ _properties = NoBag
  /\ lastSet = NoValue
  /\ _effectInstance = NULL
  /\ supported = << >>
  /\ _components = kOfxImageComponentNone
  /\ host = DefaultHost
  /\ image = NoImage
  /\ _referenceCount = 0
  /\ destructorRuns = 0
  /\ adds = 0
  /\ releases = 0
  /\ atCtor = NoSnapshot
  /\ mainEntryCalls = << >>
  /\ ret = NoCall
  /\ IdleThreads

NextClone ==
  \/ \E c \in Components : DescribeSupportedComponent(c)
  \/ \E name \in DOMAIN DescribedValues : DescribeProperty(name)
  \/ \E e \in { "effect", NULL } : ClipInstance(e)

SpecClone == InitClone /\ [][NextClone]_vars

GetComponentsCall ==
  /\ ret' = Call("getComponents", NoValue, 0, Ok(getComponents))
  /\ UNCHANGED << clipVars, imageVars, threadVars, mainEntryCalls >>

InitOrder ==
  /\ _effectInstance = "effect"
  /\ supported = << kOfxImageComponentRGBA >>
  /\ _components = kOfxImageComponentNone
  /\ host \in HookHosts
  /\ image = NoImage
  /\ _referenceCount = 0
  /\ destructorRuns = 0
  /\ adds = 0
  /\ releases = 0
  /\ atCtor = NoSnapshot
  /\ mainEntryCalls = << >>
  /\ ret = NoCall
  /\ Constructed
  /\ lastSet = NoValue
  /\ IdleThreads

NextOrder ==
  \/ \E s \in Components : setComponents(s)
  \/ GetComponentsCall
  \/ \E name \in HookKeys, n \in Indices : HookGetStringProperty(name, n)
  \/ \E name \in HookKeys, n \in Indices : HookGetStringPropertyN(name, n)

SpecOrder == InitOrder /\ [][NextOrder]_vars

\* the last call read the components: getComponents, or the get hook's scalar
\* read at index 0 or multi-read with count 1 of the components key
ComponentsRead ==
  \/ ret.op = "getComponents"
  \/ ret.op = "getStringProperty" /\ ret.name = kOfxImageEffectPropComponents /\ ret.n = 0
  \/ ret.op = "getStringPropertyN" /\ ret.name = kOfxImageEffectPropComponents /\ ret.n = 1

\* what the get hook gives for every dynamic key but the components
OtherDynamicReads ==
  [name \in DynamicKeys \ { kOfxImageEffectPropComponents } |->
     << getDoubleProperty(name, 0), getDoubleProperty(name, 1),
        getIntProperty(name, 0), getStringProperty(name, 0) >>]

\* C12: once setComponents has been called, its latest argument x is what
\* getComponents returns and what a get-hook read of the components key gives
\* at index 0 (scalar, or multi-read with count 1); and a setComponents call
\* changes no other dynamic property.
C12_ReadsObserveLastSetComponents ==
  /\ [](lastSet # NoValue /\ ComponentsRead =>
          /\ ret.outcome = "ok"
          /\ (IF ret.op = "getStringPropertyN" THEN ret.wrote ELSE << ret.value >>)
               = << lastSet >>)
  /\ [][ret'.op = "setComponents" => OtherDynamicReads' = OtherDynamicReads]_vars

C12_Witness ==
  /\ lastSet = kOfxImageComponentAlpha
  /\ ret.op = "getStringPropertyN"
  /\ ret.name = kOfxImageEffectPropComponents
  /\ ret.n = 1
  /\ ret.wrote = << kOfxImageComponentAlpha >>
  /\ host.unmappedComponents = kOfxImageComponentRGB

\* C13: component mapping cannot fail: in every state of the clip instance,
\* one with no effect bound included, findSupportedComp completes and returns
\* a component string or the sentinel "none".
C13_MappingCannotFail ==
  ret.op = "findSupportedComp" =>
    /\ ret.outcome = "ok"
    /\ ret.value \in Components \cup Range(supported)

==========================================================================
